---- MODULE Spec2Model ----
(***************************************************************************)
(* Model of expense_tracker.py: the in-memory ledger (expenses,            *)
(* expense_history, budgets), its operations, the two files written by     *)
(* save_data_to_file and read by load_data_from_file, and the menu loop of *)
(* main().                                                                 *)
(*                                                                         *)
(* Amounts are Python floats in the program.  A finite amount of the model *)
(* is a small integer, which a float holds exactly and for which float     *)
(* addition is exact; the floats nan and inf, which float() parses from    *)
(* "nan" and "inf", are the values NaN and Inf, and the arithmetic and the *)
(* comparisons of floats are the operators fadd, fle, fgt and feq.         *)
(* A Python dict is a sequence of <<key, value>> pairs in insertion order. *)
(* An optional budget is <<>> (None) or <<limit>>.                         *)
(***************************************************************************)
EXTENDS Integers, Sequences, FiniteSets, TLC

VARIABLES
    expenses,         \* dict category -> total            (line 24)
    expense_history,  \* list of <<date, category, amount, description>> (line 25)
    budgets,          \* dict category -> optional budget  (line 26)
    disk,             \* the files expenses.txt and expenses.txt.meta
    pc,               \* position of the process in main()
    loads,            \* calls of load_data_from_file made by this process
    last,             \* the last call made and what it returned
    snapshot,         \* the ledger written by the last save that completed
    attempt,          \* the ledger handed to the last save that was started
    faults,           \* saves cut short so far
    exported          \* reports written over one of the two files so far

vars == <<expenses, expense_history, budgets, disk, pc, loads, last,
          snapshot, attempt, faults, exported>>

----------------------------------------------------------------------------
(* Bounds of the model *)

MaxHist == 2

MaxFaults == 1

MaxRows == 2

MaxSpent == 4

MaxReports == 1

(* Program constants *)

DEFAULT_CATEGORIES ==
    <<"Food", "Transportation", "Entertainment", "Utilities", "Health",
      "Shopping", "Education", "Other">>

HEADER == <<"date", "category", "amount", "description">>

None == <<>>

Some(x) == <<x>>

(* datetime.now().strftime(DATE_FORMAT): the runs of the model take place
   within one day *)
Today == "2024-01-01"

----------------------------------------------------------------------------
(* Inputs *)

(* Category arguments of add_expense and set_budget *)
CategoryArgs == {"Food", "Transportation", "Travel"}

(* Amount arguments, as typed *)
AmountArgs == {"abc", "0", "2", "nan", "inf"}

(* Description argument *)
Descriptions == {"lunch"}

(* What the user types at "Amount: " and at "Budget amount: " *)
MenuAmounts == {"abc", "0", "2"}

(* What the user types at "Description (optional): ": a text with a
   carriage return in it (input() keeps a "\r" inside a line) *)
MenuDescriptions == {"rent\rdue"}

(* What the user types at "Category (name or number): " *)
CategoryInputs == {"1", "transportation", "9", ""}

----------------------------------------------------------------------------
(* Text conversions *)

(* The floats that are not finite: two values outside the range of the
   finite amounts of the model *)
NaN == -1000000

Inf == 1000000

(* x + y on floats (no negative infinity arises: an amount <= 0 is never
   added) *)
fadd(x, y) ==
    IF x = NaN \/ y = NaN THEN NaN
    ELSE IF x = Inf \/ y = Inf THEN Inf
    ELSE x + y

(* x <= y, x > y and x == y on floats: every comparison with nan is False *)
fle(x, y) == x # NaN /\ y # NaN /\ x <= y

fgt(x, y) == x # NaN /\ y # NaN /\ x > y

feq(x, y) == x # NaN /\ y # NaN /\ x = y

(* float(s): <<text, value>> for the texts of the model that float() parses;
   on the other texts of the model ("abc", "", a text with "$" in it)
   float() raises ValueError *)
FloatTexts ==
    { <<"-1", -1>>, <<"0", 0>>, <<"1", 1>>, <<"2", 2>>, <<"3", 3>>,
      <<"-1.0", -1>>, <<"0.0", 0>>, <<"1.0", 1>>, <<"2.0", 2>>, <<"3.0", 3>>,
      <<"2.", 2>>, <<"nan", NaN>>, <<"inf", Inf>> }

IsFloat(s) == \E p \in FloatTexts : p[1] = s

float(s) == (CHOOSE p \in FloatTexts : p[1] = s)[2]

(* str(x) of a float x, as csv.writer writes a non-string field *)
FloatRepr(x) ==
    CASE x = -1 -> "-1.0"
      [] x = 0  -> "0.0"
      [] x = 1  -> "1.0"
      [] x = 2  -> "2.0"
      [] x = 3  -> "3.0"
      [] x = NaN -> "nan"
      [] x = Inf -> "inf"
      [] OTHER  -> "?"

(* f"{x:.2f}" of a float x, as export_report writes an amount *)
TwoDecimals(x) ==
    CASE x = -1 -> "-1.00"
      [] x = 0  -> "0.00"
      [] x = 1  -> "1.00"
      [] x = 2  -> "2.00"
      [] x = 3  -> "3.00"
      [] x = NaN -> "nan"
      [] x = Inf -> "inf"
      [] OTHER  -> "?"

(* the first n characters of the text s *)
Prefix(s, n) == SubSeq(s, 1, n)

(* the text s from its character n on *)
Suffix(s, n) == SubSeq(s, n, Len(s))

(* A field as load_data_from_file gets it from csv.reader: the record file
   is opened for reading in text mode without newline='' (line 133), so
   "\r" and "\r\n" reach the reader as "\n", inside a quoted field too *)
RECURSIVE universal_newlines(_)
universal_newlines(s) ==
    IF s = "" THEN ""
    ELSE IF Prefix(s, 1) = "\r"
    THEN IF Len(s) >= 2 /\ SubSeq(s, 2, 2) = "\n"
         THEN universal_newlines(Suffix(s, 2))
         ELSE "\n" \o universal_newlines(Suffix(s, 2))
    ELSE Prefix(s, 1) \o universal_newlines(Suffix(s, 2))

(* The lines of a text read in text mode, after the translation above: a
   "\n" in it ends a line.  SplitLines(s, "") is the list of the lines. *)
RECURSIVE SplitLines(_, _)
SplitLines(s, line) ==
    IF s = "" THEN <<line>>
    ELSE IF Prefix(s, 1) = "\n"
    THEN <<line>> \o SplitLines(Suffix(s, 2), "")
    ELSE SplitLines(Suffix(s, 2), line \o Prefix(s, 1))

(* str.lower() on the texts of the model *)
lower(s) ==
    CASE s = "Food"           -> "food"
      [] s = "Transportation" -> "transportation"
      [] s = "Entertainment"  -> "entertainment"
      [] s = "Utilities"      -> "utilities"
      [] s = "Health"         -> "health"
      [] s = "Shopping"       -> "shopping"
      [] s = "Education"      -> "education"
      [] s = "Other"          -> "other"
      [] s = "Travel"         -> "travel"
      [] OTHER                -> s

(* str.isdigit() and int() on the texts of the model *)
DigitTexts == { <<"1", 1>>, <<"2", 2>>, <<"9", 9>> }

isdigit(s) == \E p \in DigitTexts : p[1] = s

int(s) == (CHOOSE p \in DigitTexts : p[1] = s)[2]

----------------------------------------------------------------------------
(* Python dict *)

Keys(d) == { d[i][1] : i \in DOMAIN d }

Has(d, k) == k \in Keys(d)

IndexOf(d, k) == CHOOSE i \in DOMAIN d : d[i][1] = k

Get(d, k) == d[IndexOf(d, k)][2]

(* d[k] = v *)
Put(d, k, v) ==
    IF Has(d, k) THEN [d EXCEPT ![IndexOf(d, k)] = <<k, v>>]
    ELSE Append(d, <<k, v>>)

(* d.update(other) *)
RECURSIVE dict_update(_, _)
dict_update(d, other) ==
    IF other = <<>> THEN d
    ELSE dict_update(Put(d, Head(other)[1], Head(other)[2]), Tail(other))

(* the mapping a dict denotes, whatever its insertion order *)
AsMap(d) == [k \in Keys(d) |-> Get(d, k)]

(* sum(d.values()): 0 + v1 + v2 + ... *)
RECURSIVE SumFrom(_, _)
SumFrom(d, total) ==
    IF d = <<>> THEN total ELSE SumFrom(Tail(d), fadd(total, Head(d)[2]))

SumValues(d) == SumFrom(d, 0)

(* max(d.values()), d not empty: the first value, replaced by each later
   value that is > the one held *)
RECURSIVE MaxFrom(_, _)
MaxFrom(d, best) ==
    IF d = <<>> THEN best
    ELSE MaxFrom(Tail(d), IF fgt(Head(d)[2], best) THEN Head(d)[2] ELSE best)

MaxValue(d) == MaxFrom(Tail(d), Head(d)[2])

----------------------------------------------------------------------------
(* The ledger: the three module-level globals *)

Ledger(e, h, b) == [expenses |-> e, expense_history |-> h, budgets |-> b]

InitialExpenses == [i \in DOMAIN DEFAULT_CATEGORIES |-> <<DEFAULT_CATEGORIES[i], 0>>]

InitialBudgets == [i \in DOMAIN DEFAULT_CATEGORIES |-> <<DEFAULT_CATEGORIES[i], None>>]

Fresh == Ledger(InitialExpenses, <<>>, InitialBudgets)

Mem == Ledger(expenses, expense_history, budgets)

----------------------------------------------------------------------------
(* Data operations *)

(* add_expense: the ledger after the call and the message returned *)
add_expense(L, category, amount, description, date) ==
    IF ~Has(L.expenses, category)
    THEN [ledger |-> L, msg |-> "Invalid category"]
    ELSE IF ~IsFloat(amount)
    THEN [ledger |-> L, msg |-> "Invalid amount"]
    ELSE IF fle(float(amount), 0)
    THEN [ledger |-> L, msg |-> "Amount must be positive"]
    ELSE LET record == <<date, category, float(amount), description>>
         IN  [ledger |->
                Ledger(Put(L.expenses, category,
                           fadd(Get(L.expenses, category), float(amount))),
                       Append(L.expense_history, record),
                       L.budgets),
              msg |-> "Expense added"]

(* calculate_total_expenses *)
calculate_total_expenses(L) == SumValues(L.expenses)

(* [cat for cat, amt in expenses.items() if amt == max_amount] *)
TopCats(d, max_amount) ==
    LET hits == SelectSeq(d, LAMBDA p : feq(p[2], max_amount))
    IN  [i \in DOMAIN hits |-> hits[i][1]]

(* find_highest_spending_category: (None, 0.0) or (top_cats, max_amount) *)
find_highest_spending_category(L) ==
    LET max_amount == MaxValue(L.expenses)
    IN  IF feq(max_amount, 0)
        THEN [none |-> TRUE, top_cats |-> <<>>, max_amount |-> 0]
        ELSE [none |-> FALSE, top_cats |-> TopCats(L.expenses, max_amount),
              max_amount |-> max_amount]

(* set_budget: the ledger after the call and the message printed *)
set_budget(L, category, amount) ==
    IF ~Has(L.budgets, category)
    THEN [ledger |-> L, msg |-> "Invalid category"]
    ELSE IF ~IsFloat(amount)
    THEN [ledger |-> L, msg |-> "Invalid amount"]
    ELSE IF fle(float(amount), 0)
    THEN [ledger |-> L, msg |-> "Budget must be positive"]
    ELSE [ledger |->
            Ledger(L.expenses, L.expense_history,
                   Put(L.budgets, category, Some(float(amount)))),
          msg |-> "Budget set"]

(* Mutant of remove_all_expenses: the budgets are reset too *)
remove_all_expenses_and_budgets(L) ==
    Ledger([i \in DOMAIN L.expenses |-> <<L.expenses[i][1], 0>>],
           <<>>,
           [i \in DOMAIN L.budgets |-> <<L.budgets[i][1], None>>])

(* remove_all_expenses *)
remove_all_expenses(L) ==
    Ledger([i \in DOMAIN L.expenses |-> <<L.expenses[i][1], 0>>],
           <<>>,
           L.budgets)

----------------------------------------------------------------------------
(* Files.  The record file is the sequence of rows csv.reader yields from
   it, each row a sequence of text fields; the metadata file is absent, not
   parseable as JSON ("corrupt": empty or cut short), or a document with the
   two dicts. *)

NoRecordsFile == [exists |-> FALSE, rows |-> <<>>]

RecordsFile(rows) == [exists |-> TRUE, rows |-> rows]

NoMetaFile == [state |-> "absent", expenses |-> <<>>, budgets |-> <<>>]

CorruptMetaFile == [state |-> "corrupt", expenses |-> <<>>, budgets |-> <<>>]

MetaFile(e, b) == [state |-> "ok", expenses |-> e, budgets |-> b]

NoFiles == [records |-> NoRecordsFile, meta |-> NoMetaFile]

(* writer.writerow(rec): every field as text *)
WriteRow(rec) == <<rec[1], rec[2], FloatRepr(rec[3]), rec[4]>>

(* the rows save_data_to_file writes: the header, then one row per record *)
RowsOf(history) == <<HEADER>> \o [i \in DOMAIN history |-> WriteRow(history[i])]

(* save_data_to_file that runs to its end *)
save_data_to_file(L) ==
    [records |-> RecordsFile(RowsOf(L.expense_history)),
     meta    |-> MetaFile(L.expenses, L.budgets)]

(* What csv.reader yields from a row of which only the first bytes reached
   the file: the fields before field j whole, and the first n characters of
   field j (n = 0 for j > 1: the comma before field j was the last byte) *)
TornRow(row, j, n) == SubSeq(row, 1, j - 1) \o <<Prefix(row[j], n)>>

SavePoint(step, row, field, chars) ==
    [step |-> step, row |-> row, field |-> field, chars |-> chars]

(* The points at which save_data_to_file can be cut short (an exception
   caught on line 121, or the process killed):
     "open_records"  open(filename, 'w') raises, or the process is killed
                     before it: no file is touched;
     "rows"          the record file truncated and `row` of its rows
                     written whole (0 up to all of them), the metadata file
                     not yet opened or its open() raising;
     "torn"          the rows before `row` written whole and row `row` (the
                     header is row 1) up to some byte inside it;
     "meta"          the record file complete, the metadata file truncated
                     and empty or written in part. *)
SavePoints(L) ==
    LET rows == RowsOf(L.expense_history)
    IN  {SavePoint("open_records", 0, 0, 0), SavePoint("meta", 0, 0, 0)}
        \cup { SavePoint("rows", k, 0, 0) : k \in 0 .. Len(rows) }
        \cup UNION { UNION { { SavePoint("torn", i, j, n) :
                                n \in (IF j = 1 THEN 1 ELSE 0) .. Len(rows[i][j]) } :
                              j \in 1 .. Len(rows[i]) } :
                      i \in 1 .. Len(rows) }

save_interrupted(L, old, p) ==
    LET rows == RowsOf(L.expense_history)
    IN  CASE p.step = "open_records" -> old
          [] p.step = "rows" ->
               [records |-> RecordsFile(SubSeq(rows, 1, p.row)),
                meta    |-> old.meta]
          [] p.step = "torn" ->
               [records |-> RecordsFile(Append(SubSeq(rows, 1, p.row - 1),
                                               TornRow(rows[p.row], p.field, p.chars))),
                meta    |-> old.meta]
          [] OTHER ->
               [records |-> RecordsFile(rows), meta |-> CorruptMetaFile]

(* the file names save_data_to_file and load_data_from_file use *)
EXPENSES_FILE == "expenses.txt"

META_FILE == EXPENSES_FILE \o ".meta"

(* The rows csv.reader yields from the lines export_report writes for one
   record, f"{rec[0]}, {rec[1]}, ${rec[2]:.2f}, {rec[3]}\n": four fields,
   the last three with the blank after the comma; a line break inside the
   description starts a new line (the descriptions of the model hold no
   comma and no quote) *)
ReportLines(rec) ==
    LET parts == SplitLines(universal_newlines(rec[4]), "")
    IN  << <<rec[1], " " \o rec[2], " $" \o TwoDecimals(rec[3]),
             " " \o parts[1]>> >>
        \o [i \in 1 .. (Len(parts) - 1) |->
               IF parts[i + 1] = "" THEN <<>> ELSE <<parts[i + 1]>>]

RECURSIVE ReportRows(_)
ReportRows(history) ==
    IF history = <<>>
    THEN << <<"Expense Report">>,
            <<"========================================">> >>
    ELSE ReportRows(SubSeq(history, 1, Len(history) - 1))
         \o ReportLines(history[Len(history)])

(* export_report(filename) on the two files: it rewrites the file it is
   given; a report is not a JSON document; a file of another name is not one
   of the two *)
export_report(L, files, filename) ==
    IF filename = EXPENSES_FILE
    THEN [files EXCEPT !.records = RecordsFile(ReportRows(L.expense_history))]
    ELSE IF filename = META_FILE
    THEN [files EXCEPT !.meta = CorruptMetaFile]
    ELSE files

(* One iteration of "for row in reader" on st = the globals so far and
   whether an exception was raised *)
load_row(st, row) ==
    IF st.error THEN st
    ELSE IF Len(row) < 4 THEN st
    ELSE IF Len(row) # 4 THEN [st EXCEPT !.error = TRUE]
    ELSE IF ~IsFloat(row[3]) THEN [st EXCEPT !.error = TRUE]
    ELSE LET rec_cat == row[2]
             rec_amt == float(row[3])
         IN  [expenses |->
                IF Has(st.expenses, rec_cat)
                THEN Put(st.expenses, rec_cat,
                         fadd(Get(st.expenses, rec_cat), rec_amt))
                ELSE Put(st.expenses, rec_cat, rec_amt),
              expense_history |->
                Append(st.expense_history, <<row[1], rec_cat, rec_amt, row[4]>>),
              error |-> FALSE]

RECURSIVE load_rows(_, _)
load_rows(st, rows) ==
    IF rows = <<>> THEN st
    ELSE LET row == [i \in DOMAIN Head(rows) |-> universal_newlines(Head(rows)[i])]
         IN  load_rows(load_row(st, row), Tail(rows))

(* "Load meta": expenses.update(...), budgets.update(...) *)
load_meta(L, meta) ==
    IF meta.state = "ok"
    THEN Ledger(dict_update(L.expenses, meta.expenses),
                L.expense_history,
                dict_update(L.budgets, meta.budgets))
    ELSE L

(* load_data_from_file on the globals L *)
load_data_from_file(L, files) ==
    IF ~files.records.exists THEN L
    ELSE LET rows == files.records.rows
             body == IF rows = <<>> THEN <<>> ELSE Tail(rows)
             st   == load_rows([expenses |-> L.expenses,
                                expense_history |-> L.expense_history,
                                error |-> FALSE], body)
             read == Ledger(st.expenses, st.expense_history, L.budgets)
         IN  IF st.error THEN read ELSE load_meta(read, files.meta)

(* get_category_from_input; None is "" here (main tests "if not cat") *)
RECURSIVE MatchName(_, _)
MatchName(user_input, categories) ==
    IF categories = <<>> THEN ""
    ELSE IF lower(user_input) = lower(Head(categories)) THEN Head(categories)
    ELSE MatchName(user_input, Tail(categories))

get_category_from_input(user_input, categories) ==
    IF isdigit(user_input) /\ 0 <= int(user_input) - 1
                           /\ int(user_input) - 1 < Len(categories)
    THEN categories[int(user_input)]
    ELSE MatchName(user_input, categories)

(* list(d.keys()) *)
KeyList(d) == [i \in DOMAIN d |-> d[i][1]]

----------------------------------------------------------------------------
(* Initial state: the module has just been imported (lines 24-26), no file
   has been written yet. *)

Init ==
    /\ expenses = InitialExpenses
    /\ expense_history = <<>>
    /\ budgets = InitialBudgets
    /\ disk = NoFiles
    /\ pc = "start"
    /\ loads = 0
    /\ last = [op |-> "import"]
    /\ snapshot = Fresh
    /\ attempt = Fresh
    /\ faults = 0
    /\ exported = 0

SetMem(L) ==
    /\ expenses' = L.expenses
    /\ expense_history' = L.expense_history
    /\ budgets' = L.budgets

----------------------------------------------------------------------------
(* The functions of the module, called directly *)

AddExpense(category, amount, description) ==
    LET r == add_expense(Mem, category, amount, description, Today)
    IN  /\ Len(r.ledger.expense_history) <= MaxHist
        /\ SetMem(r.ledger)
        /\ last' = [op |-> "add_expense", category |-> category,
                    amount |-> amount, description |-> description,
                    msg |-> r.msg]
        /\ UNCHANGED <<disk, pc, loads, snapshot, attempt, faults, exported>>

SetBudget(category, amount) ==
    LET r == set_budget(Mem, category, amount)
    IN  /\ SetMem(r.ledger)
        /\ last' = [op |-> "set_budget", category |-> category,
                    amount |-> amount, msg |-> r.msg]
        /\ UNCHANGED <<disk, pc, loads, snapshot, attempt, faults, exported>>

RemoveAllExpenses ==
    /\ SetMem(remove_all_expenses(Mem))
    /\ last' = [op |-> "remove_all_expenses",
                removed |-> Len(expense_history)]
    /\ UNCHANGED <<disk, pc, loads, snapshot, attempt, faults, exported>>

FindHighest ==
    /\ last' = [op |-> "find_highest_spending_category",
                result |-> find_highest_spending_category(Mem)]
    /\ UNCHANGED <<expenses, expense_history, budgets, disk, pc, loads,
                   snapshot, attempt, faults, exported>>

Next ==
    \/ \E c \in CategoryArgs, a \in AmountArgs, d \in Descriptions :
          AddExpense(c, a, d)
    \/ \E c \in CategoryArgs, a \in AmountArgs : SetBudget(c, a)
    \/ RemoveAllExpenses
    \/ FindHighest

Spec == Init /\ [][Next]_vars

----------------------------------------------------------------------------
(* main(): load once, then the menu loop.  Every handler is one action, up
   to and including its call of save_data_to_file.  The outcome o of that
   call is "ok" (it ran to its end), "error" (an exception was raised at one
   of the points of SavePoints, caught on line 121, and the loop goes on) or
   "crash" (the process was killed at one of them). *)

SaveOk == "ok"

SaveOutcomes == {SaveOk, "error", "crash"}

(* the handler's trailing save_data_to_file() of ledger L, then next_pc *)
SaveThen(L, o, next_pc) ==
    /\ o # SaveOk => faults < MaxFaults
    /\ UNCHANGED exported
    /\ faults' = IF o = SaveOk THEN faults ELSE faults + 1
    /\ attempt' = L
    /\ IF o = SaveOk
       THEN disk' = save_data_to_file(L)
       ELSE disk' \in { save_interrupted(L, disk, p) : p \in SavePoints(L) }
    /\ snapshot' = IF o = SaveOk THEN L ELSE snapshot
    /\ IF o = "crash"
       THEN SetMem(Fresh) /\ pc' = "dead"
       ELSE SetMem(L) /\ pc' = next_pc

(* line 277 *)
Start ==
    /\ pc = "start"
    /\ SetMem(load_data_from_file(Mem, disk))
    /\ loads' = loads + 1
    /\ pc' = "menu"
    /\ last' = [op |-> "load_data_from_file"]
    /\ UNCHANGED <<disk, snapshot, attempt, faults, exported>>

(* choice '1' *)
Choice1(cat_input, amt, desc, o) ==
    /\ pc = "menu"
    /\ LET cat == get_category_from_input(cat_input, KeyList(expenses))
       IN  IF cat = ""
           THEN /\ o = SaveOk
                /\ last' = [op |-> "choice_1", save |-> "none",
                            msg |-> "Invalid category. Please try again."]
                /\ UNCHANGED <<expenses, expense_history, budgets, disk, pc,
                               snapshot, attempt, faults, exported>>
           ELSE LET r == add_expense(Mem, cat, amt, desc, Today)
                IN  /\ Len(r.ledger.expense_history) <= MaxHist
                    /\ SumValues(r.ledger.expenses) <= MaxSpent
                    /\ last' = [op |-> "choice_1", save |-> o, category |-> cat,
                                amount |-> amt, description |-> desc,
                                msg |-> r.msg]
                    /\ SaveThen(r.ledger, o, "menu")
    /\ UNCHANGED loads

(* choice '4' *)
Choice4 ==
    /\ pc = "menu"
    /\ FindHighest

(* Mutant of Choice6: the handler does not call save_data_to_file *)
Choice6_without_save(cat_input, amt, o) ==
    /\ pc = "menu"
    /\ o = SaveOk
    /\ LET cat == get_category_from_input(cat_input, KeyList(budgets))
       IN  IF cat = ""
           THEN /\ last' = [op |-> "choice_6", save |-> "none",
                            msg |-> "Invalid category. Please try again."]
                /\ UNCHANGED <<expenses, expense_history, budgets>>
           ELSE LET r == set_budget(Mem, cat, amt)
                IN  /\ last' = [op |-> "choice_6", save |-> "none",
                                category |-> cat,
                                amount |-> amt, msg |-> r.msg]
                    /\ SetMem(r.ledger)
    /\ UNCHANGED <<disk, pc, loads, snapshot, attempt, faults, exported>>

(* choice '6', sub '1' *)
Choice6(cat_input, amt, o) ==
    /\ pc = "menu"
    /\ LET cat == get_category_from_input(cat_input, KeyList(budgets))
       IN  IF cat = ""
           THEN /\ o = SaveOk
                /\ last' = [op |-> "choice_6", save |-> "none",
                            msg |-> "Invalid category. Please try again."]
                /\ UNCHANGED <<expenses, expense_history, budgets, disk, pc,
                               snapshot, attempt, faults, exported>>
           ELSE LET r == set_budget(Mem, cat, amt)
                IN  /\ last' = [op |-> "choice_6", save |-> o, category |-> cat,
                                amount |-> amt, msg |-> r.msg]
                    /\ SaveThen(r.ledger, o, "menu")
    /\ UNCHANGED loads

(* What the user types at "Filename (default: expense_report.txt): " *)
ReportNames == {"", "expenses.txt", "expenses.txt.meta"}

(* choice '10' *)
Choice10(fname_input) ==
    /\ pc = "menu"
    /\ LET fname == IF fname_input # "" THEN fname_input
                    ELSE "expense_report.txt"
           tracked == fname \in {EXPENSES_FILE, META_FILE}
       IN  /\ tracked => exported < MaxReports
           /\ disk' = export_report(Mem, disk, fname)
           /\ exported' = IF tracked THEN exported + 1 ELSE exported
           /\ last' = [op |-> "choice_10", filename |-> fname]
    /\ UNCHANGED <<expenses, expense_history, budgets, pc, loads, snapshot,
                   attempt, faults>>

(* choice '11' *)
Choice11(confirm, o) ==
    /\ pc = "menu"
    /\ IF confirm = "y"
       THEN /\ last' = [op |-> "choice_11", save |-> o, msg |-> "removed",
                        removed |-> Len(expense_history)]
            /\ SaveThen(remove_all_expenses(Mem), o, "menu")
       ELSE /\ o = SaveOk
            /\ last' = [op |-> "choice_11", save |-> "none",
                        msg |-> "not confirmed"]
            /\ UNCHANGED <<expenses, expense_history, budgets, disk, pc,
                           snapshot, attempt, faults, exported>>
    /\ UNCHANGED loads

(* choice '0' *)
Choice0(o) ==
    /\ pc = "menu"
    /\ last' = [op |-> "choice_0", save |-> o]
    /\ SaveThen(Mem, o, "exited")
    /\ UNCHANGED loads

(* The program is run again: a new process imports the module.  From
   "menu" this is the process being killed at the prompt. *)
Restart ==
    /\ pc \in {"menu", "exited", "dead"}
    /\ SetMem(Fresh)
    /\ loads' = 0
    /\ pc' = "start"
    /\ last' = [op |-> "restart"]
    /\ UNCHANGED <<disk, snapshot, attempt, faults, exported>>

(* The menu loop when every save runs to its end *)
NextMain ==
    \/ Start
    \/ \E ci \in CategoryInputs, a \in MenuAmounts, d \in MenuDescriptions :
          Choice1(ci, a, d, SaveOk)
    \/ Choice4
    \/ \E ci \in CategoryInputs, a \in MenuAmounts : Choice6(ci, a, SaveOk)
    \/ \E fn \in ReportNames : Choice10(fn)
    \/ \E cf \in {"y", "n"} : Choice11(cf, SaveOk)
    \/ Choice0(SaveOk)
    \/ Restart

SpecMain == Init /\ [][NextMain]_vars

(* The menu loop when a save can be cut short.  What is typed is drawn from
   smaller sets here, the files after a cut save being the subject. *)
CrashCategoryInputs == {"1"}

CrashAmounts == {"2"}

CrashDescriptions == {"lunch"}

NextCrash ==
    \/ Start
    \/ \E ci \in CrashCategoryInputs, a \in CrashAmounts,
          d \in CrashDescriptions, o \in SaveOutcomes : Choice1(ci, a, d, o)
    \/ Choice4
    \/ \E ci \in CrashCategoryInputs, a \in CrashAmounts, o \in SaveOutcomes :
          Choice6(ci, a, o)
    \/ \E fn \in ReportNames : Choice10(fn)
    \/ \E cf \in {"y", "n"}, o \in SaveOutcomes : Choice11(cf, o)
    \/ \E o \in SaveOutcomes : Choice0(o)
    \/ Restart

SpecCrash == Init /\ [][NextCrash]_vars

----------------------------------------------------------------------------
(* A process started on files it did not write itself (edited by hand, or
   left by another version): any short record file over the rows below, with
   any of the metadata files below. *)

ForeignRows ==
    { <<"2023-12-31", "Food", "1.0", "lunch">>,
      <<"2023-12-31", "Travel", "2.0", "">>,
      <<"2023-12-31", "Food", "1.0">>,
      <<"2023-12-31", "Food", "1.0", "lunch", "extra">>,
      <<>>,
      <<"2023-12-31", "Food", "abc", "lunch">> }

ForeignRecordsFiles ==
    {NoRecordsFile} \cup
    { RecordsFile(<<HEADER>> \o rs) :
        rs \in UNION { [1..m -> ForeignRows] : m \in 0..MaxRows } }

ForeignTotals == { <<>>, << <<"Food", 3>> >>, << <<"Travel", 2>> >> }

ForeignBudgets ==
    { <<>>, << <<"Food", Some(3)>> >>, << <<"Travel", Some(3)>> >> }

ForeignMetaFiles ==
    {NoMetaFile, CorruptMetaFile} \cup
    { MetaFile(e, b) : e \in ForeignTotals, b \in ForeignBudgets }

InitLoad ==
    /\ expenses = InitialExpenses
    /\ expense_history = <<>>
    /\ budgets = InitialBudgets
    /\ disk \in [records : ForeignRecordsFiles, meta : ForeignMetaFiles]
    /\ pc = "start"
    /\ loads = 0
    /\ last = [op |-> "import"]
    /\ snapshot = Fresh
    /\ attempt = Fresh
    /\ faults = 0
    /\ exported = 0

NextLoad ==
    \/ Start
    \/ Choice4
    \/ \E cf \in {"y", "n"} : Choice11(cf, SaveOk)
    \/ Restart

SpecLoad == InitLoad /\ [][NextLoad]_vars

----------------------------------------------------------------------------
(* Vocabulary of the properties *)

HistorySet(h) == { h[i] : i \in DOMAIN h }

(* sum of the amounts of the records of category c *)
RECURSIVE HistorySum(_, _)
HistorySum(h, c) ==
    IF h = <<>> THEN 0
    ELSE fadd(IF Head(h)[2] = c THEN Head(h)[3] ELSE 0, HistorySum(Tail(h), c))

(* m is the largest total: some category has it and none has more *)
IsMaxTotal(d, m) ==
    /\ \E i \in DOMAIN d : feq(d[i][2], m)
    /\ \A i \in DOMAIN d : fle(d[i][2], m)

SameLedger(A, B) ==
    /\ A.expense_history = B.expense_history
    /\ AsMap(A.expenses) = AsMap(B.expenses)
    /\ AsMap(A.budgets) = AsMap(B.budgets)

(* the two files hold exactly the ledger L *)
FilesHold(L) ==
    /\ disk.records.exists
    /\ Len(disk.records.rows) = Len(L.expense_history) + 1
    /\ disk.records.rows[1] = HEADER
    /\ \A i \in DOMAIN L.expense_history :
          LET row == disk.records.rows[i + 1]
              rec == L.expense_history[i]
          IN  /\ Len(row) = 4
              /\ row[1] = rec[1]
              /\ row[2] = rec[2]
              /\ IsFloat(row[3]) /\ float(row[3]) = rec[3]
              /\ row[4] = rec[4]
    /\ disk.meta.state = "ok"
    /\ AsMap(disk.meta.expenses) = AsMap(L.expenses)
    /\ AsMap(disk.meta.budgets) = AsMap(L.budgets)

ValidAmount(a) == IsFloat(a) /\ fgt(float(a), 0)

(* the last step was a menu handler whose save was cut short *)
SaveWasCut ==
    /\ last.op \in {"choice_1", "choice_6", "choice_11", "choice_0"}
    /\ last.save \in {"error", "crash"}

----------------------------------------------------------------------------
(* C1: add_expense(c, a, d) with c a key of the totals and a > 0 raises the
   grand total by exactly a (the new grand total == the old one + a, as
   floats), raises the total of c by a and of no other category, and appends
   the one record (today, c, a, d) at the end of the history, the earlier
   records staying in place and in order. *)
C1_AddExpenseEffect ==
    [][ ( /\ last'.op = "add_expense"
          /\ Has(expenses, last'.category)
          /\ ValidAmount(last'.amount) )
        => LET c == last'.category
               a == float(last'.amount)
           IN  /\ feq(SumValues(expenses'), fadd(SumValues(expenses), a))
               /\ Keys(expenses') = Keys(expenses)
               /\ feq(Get(expenses', c), fadd(Get(expenses, c), a))
               /\ \A k \in Keys(expenses) \ {c} :
                     Get(expenses', k) = Get(expenses, k)
               /\ Len(expense_history') = Len(expense_history) + 1
               /\ expense_history'[Len(expense_history')] =
                     <<Today, c, a, last'.description>>
               /\ SubSeq(expense_history', 1, Len(expense_history)) =
                     expense_history ]_vars

(* The same from the ledgers whose totals are all numbers *)
AddExpenseEffectWithoutNaN ==
    [][ ( /\ last'.op = "add_expense"
          /\ Has(expenses, last'.category)
          /\ ValidAmount(last'.amount)
          /\ \A k \in Keys(expenses) : Get(expenses, k) # NaN )
        => LET c == last'.category
               a == float(last'.amount)
           IN  /\ feq(SumValues(expenses'), fadd(SumValues(expenses), a))
               /\ Keys(expenses') = Keys(expenses)
               /\ feq(Get(expenses', c), fadd(Get(expenses, c), a))
               /\ \A k \in Keys(expenses) \ {c} :
                     Get(expenses', k) = Get(expenses, k)
               /\ Len(expense_history') = Len(expense_history) + 1
               /\ expense_history'[Len(expense_history')] =
                     <<Today, c, a, last'.description>>
               /\ SubSeq(expense_history', 1, Len(expense_history)) =
                     expense_history ]_vars

(* C2: a rejected add_expense (unknown category, or an amount that is not
   numeric or is <= 0) returns the corresponding error and leaves the totals,
   the history and the budgets as they were. *)
C2_RejectedAddChangesNothing ==
    [][ ( /\ last'.op = "add_expense"
          /\ \/ ~Has(expenses, last'.category)
             \/ ~ValidAmount(last'.amount) )
        => /\ IF ~Has(expenses, last'.category)
              THEN last'.msg = "Invalid category"
              ELSE last'.msg = (IF IsFloat(last'.amount)
                                THEN "Amount must be positive"
                                ELSE "Invalid amount")
           /\ UNCHANGED <<expenses, expense_history, budgets>> ]_vars

(* C4: remove_all_expenses leaves every total 0 and the history empty, and
   the budgets (keys and limits) exactly as they were. *)
C4_RemoveAllKeepsBudgets ==
    [][ last'.op = "remove_all_expenses"
        => /\ Keys(expenses') = Keys(expenses)
           /\ \A k \in Keys(expenses') : Get(expenses', k) = 0
           /\ SumValues(expenses') = 0
           /\ expense_history' = <<>>
           /\ budgets' = budgets ]_vars

(* the reset has removed two records and a budget is set *)
C4_Witness ==
    /\ last.op = "remove_all_expenses"
    /\ last.removed = 2
    /\ \E k \in Keys(budgets) : Get(budgets, k) # None
    /\ expense_history = <<>>

(* C8: find_highest_spending_category returns exactly the categories whose
   total is the largest total, each once, with that total; when the largest
   total is 0 it returns (None, 0.0). *)
C8_HighestReportsAllTies ==
    last.op = "find_highest_spending_category"
    => LET r == last.result
       IN  IF IsMaxTotal(expenses, 0)
           THEN r.none /\ r.max_amount = 0
           ELSE /\ ~r.none
                /\ IsMaxTotal(expenses, r.max_amount)
                /\ HistorySet(r.top_cats) =
                      { k \in Keys(expenses) : feq(Get(expenses, k), r.max_amount) }
                /\ Len(r.top_cats) = Cardinality(HistorySet(r.top_cats))

(* The same on the ledgers whose totals are all numbers *)
HighestReportsAllTiesWithoutNaN ==
    (\A k \in Keys(expenses) : Get(expenses, k) # NaN)
    => C8_HighestReportsAllTies

(* a tie between two categories has been reported *)
TieReported ==
    /\ last.op = "find_highest_spending_category"
    /\ ~last.result.none
    /\ Len(last.result.top_cats) = 2

(* C3: saving a ledger reached by add, set-budget and reset and loading
   the two files into a freshly started ledger gives the same set of history
   records and the same total for every category (no total counted twice);
   and a process that has just loaded the two files as the last save left
   them holds the records and totals of the ledger that was saved. *)
C3_SaveLoadRoundTrip ==
    /\ LET R == load_data_from_file(Fresh, save_data_to_file(Mem))
       IN  /\ HistorySet(R.expense_history) = HistorySet(expense_history)
           /\ AsMap(R.expenses) = AsMap(expenses)
    /\ (last.op = "load_data_from_file" /\ disk = save_data_to_file(snapshot))
       => /\ HistorySet(expense_history) = HistorySet(snapshot.expense_history)
          /\ AsMap(expenses) = AsMap(snapshot.expenses)

(* The part of the round trip that does hold: the totals and the budgets
   come back as saved, and every record comes back with its date, category
   and amount, in order. *)
TotalsSurviveSaveLoad ==
    LET R == load_data_from_file(Fresh, save_data_to_file(Mem))
    IN  /\ AsMap(R.expenses) = AsMap(expenses)
        /\ AsMap(R.budgets) = AsMap(budgets)
        /\ Len(R.expense_history) = Len(expense_history)
        /\ \A i \in DOMAIN expense_history :
              /\ R.expense_history[i][1] = expense_history[i][1]
              /\ R.expense_history[i][2] = expense_history[i][2]
              /\ R.expense_history[i][3] = expense_history[i][3]

(* C10: load runs exactly once before the first prompt, and whenever the
   program waits at the prompt after a menu action that changed totals,
   history or budgets, or has exited, the two files hold exactly the
   in-memory history, totals and budgets (no save being cut short). *)
C10_SavedAfterEveryMutation ==
    /\ pc = "menu" => loads = 1
    /\ pc = "start" => loads = 0
    /\ ( /\ pc = "menu"
         /\ last.op \in {"choice_1", "choice_6", "choice_11"}
         /\ last.msg \in {"Expense added", "Budget set", "removed"} )
       => FilesHold(Mem)
    /\ pc = "exited" => FilesHold(Mem)

(* a budget has been set from the menu on a ledger holding two records *)
C10_Witness ==
    /\ pc = "menu"
    /\ last.op = "choice_6"
    /\ last.msg = "Budget set"
    /\ Len(expense_history) = 2
    /\ loads = 1

(* C5: a save cut short at any point does not corrupt the previous
   snapshot: right after it the two files on disk, when loaded, yield either
   the complete ledger of the previous save that completed or the complete
   ledger being saved. *)
C5_InterruptedSaveKeepsSnapshot ==
    SaveWasCut
    => LET R == load_data_from_file(Fresh, disk)
       IN  SameLedger(R, snapshot) \/ SameLedger(R, attempt)

(* C9: in every state reached by add, set-budget, reset, save, restart and
   load alone (no report written over one of the two files), a restart
   after a cut save included, the stored total of every category is the sum
   of the amounts of the history records of that category. *)
C9_TotalsInSyncWithHistory ==
    exported = 0
    => \A c \in Keys(expenses) :
          Get(expenses, c) = HistorySum(expense_history, c)

(* The same when, besides, no save has been cut short *)
TotalsInSyncWithoutFaults ==
    (exported = 0 /\ faults = 0)
    => \A c \in Keys(expenses) :
          Get(expenses, c) = HistorySum(expense_history, c)

(* C6: in every reachable state set_budget accepts a category if and only
   if add_expense accepts it, accepts an amount if and only if it parses as
   a number > 0, and changes nothing when it rejects. *)
C6_SetBudgetValidatesLikeAdd ==
    \A c \in CategoryArgs, a \in AmountArgs :
        LET ra == add_expense(Mem, c, a, "", Today)
            rb == set_budget(Mem, c, a)
        IN  /\ (ra.msg = "Invalid category") <=> (rb.msg = "Invalid category")
            /\ rb.msg # "Invalid category"
               => ((rb.msg = "Budget set") <=> ValidAmount(a))
            /\ rb.msg # "Budget set" => rb.ledger = Mem

(* the rows of the record file after its header *)
BodyRows == IF disk.records.rows = <<>> THEN <<>> ELSE Tail(disk.records.rows)

(* the records of the rows that have four fields *)
FourFieldRecords ==
    LET good == SelectSeq(BodyRows, LAMBDA row : Len(row) = 4)
    IN  [i \in DOMAIN good |->
            <<good[i][1], good[i][2], float(good[i][3]), good[i][4]>>]

(* C7: during load a row with fewer or more than four fields is skipped and
   loading goes on: every well-formed row before and after it is added to
   the history and to its category total, and the metadata file is still
   read afterwards. *)
C7_WrongFieldCountSkipped ==
    ( /\ last.op = "load_data_from_file"
      /\ disk.records.exists
      /\ \A i \in DOMAIN BodyRows :
            Len(BodyRows[i]) = 4 => IsFloat(BodyRows[i][3]) )
    => /\ expense_history = FourFieldRecords
       /\ \A i \in DOMAIN FourFieldRecords :
             Has(expenses, FourFieldRecords[i][2])
       /\ disk.meta.state # "ok"
          => \A c \in Keys(expenses) :
                Get(expenses, c) = HistorySum(FourFieldRecords, c)
       /\ disk.meta.state = "ok"
          => /\ \A k \in Keys(disk.meta.budgets) :
                   Has(budgets, k)
                   /\ Get(budgets, k) = Get(disk.meta.budgets, k)
             /\ \A k \in Keys(disk.meta.expenses) :
                   Has(expenses, k)
                   /\ Get(expenses, k) = Get(disk.meta.expenses, k)

====
